---- MODULE Spec2Model ----
(***************************************************************************)
(* Model of `proof`: discovery and processing of media assets (scan.rs),   *)
(* the plain run (main.rs) and the live dashboard with its background      *)
(* pipeline thread (tui.rs).                                               *)
(*                                                                         *)
(* Strings of the program are sequences of one-character strings, options  *)
(* are sequences of length 0 (None) or 1 (Some), a Result is a record with *)
(* an `ok` field.                                                          *)
(***************************************************************************)
EXTENDS Integers, Sequences, FiniteSets, TLC

\* ------------------------------------------------------------------------
\* Bounds of the model
\* ------------------------------------------------------------------------

\* largest number of directory entries the walk of the input directory yields
MaxFiles == 2

\* ------------------------------------------------------------------------
\* Characters and strings
\* ------------------------------------------------------------------------

None == << >>

Some(x) == << x >>

\* ASCII codes of the characters the model's file names use
CharCode ==
  [c \in {" ", ".", "0", "1", "2", "3", "4", "5", "6", "7", "8", "9",
          "G", "J", "P", "a", "g", "j", "m", "o", "p", "t", "u", "x"} |->
     CASE c = " " -> 32 [] c = "." -> 46
       [] c = "0" -> 48 [] c = "1" -> 49 [] c = "2" -> 50 [] c = "3" -> 51
       [] c = "4" -> 52 [] c = "5" -> 53 [] c = "6" -> 54 [] c = "7" -> 55
       [] c = "8" -> 56 [] c = "9" -> 57
       [] c = "G" -> 71 [] c = "J" -> 74 [] c = "P" -> 80
       [] c = "a" -> 97 [] c = "g" -> 103 [] c = "j" -> 106 [] c = "m" -> 109
       [] c = "o" -> 111 [] c = "p" -> 112 [] c = "t" -> 116 [] c = "u" -> 117
       [] c = "x" -> 120]

IsDigit(c) == CharCode[c] >= 48 /\ CharCode[c] <= 57

DigitVal(c) == CharCode[c] - 48

DigitChar(d) == CHOOSE c \in DOMAIN CharCode : IsDigit(c) /\ DigitVal(c) = d

\* u8::to_ascii_lowercase / to_ascii_uppercase on one character
LowerChar(c) ==
  IF CharCode[c] >= 65 /\ CharCode[c] <= 90
  THEN CHOOSE d \in DOMAIN CharCode : CharCode[d] = CharCode[c] + 32
  ELSE c

UpperChar(c) ==
  IF CharCode[c] >= 97 /\ CharCode[c] <= 122
     /\ \E d \in DOMAIN CharCode : CharCode[d] = CharCode[c] - 32
  THEN CHOOSE d \in DOMAIN CharCode : CharCode[d] = CharCode[c] - 32
  ELSE c

ToLower(s) == [i \in 1..Len(s) |-> LowerChar(s[i])]

ToUpper(s) == [i \in 1..Len(s) |-> UpperChar(s[i])]

Sign(x, y) == IF x < y THEN -1 ELSE IF x > y THEN 1 ELSE 0

\* ------------------------------------------------------------------------
\* natord::compare, the comparator of the three sorts
\* ------------------------------------------------------------------------

DigitAt(s, i) == IF i <= Len(s) /\ IsDigit(s[i]) THEN Some(DigitVal(s[i])) ELSE None

RECURSIVE SkipSpace(_, _)
SkipSpace(s, i) == IF i <= Len(s) /\ s[i] = " " THEN SkipSpace(s, i + 1) ELSE i

RECURSIVE NatordFrom(_, _, _, _)
RECURSIVE NatordDigitsLeft(_, _, _, _)
RECURSIVE NatordDigitsRight(_, _, _, _, _)

\* left-aligned digit run (one side starts with 0): first differing digit decides
NatordDigitsLeft(a, b, i, j) ==
  LET ll == DigitAt(a, i)
      rr == DigitAt(b, j)
  IN  IF ll # None /\ rr # None
      THEN IF ll[1] # rr[1] THEN Sign(ll[1], rr[1])
           ELSE NatordDigitsLeft(a, b, i + 1, j + 1)
      ELSE IF ll # None THEN 1
      ELSE IF rr # None THEN -1
      ELSE NatordFrom(a, b, i, j)

\* right-aligned digit run: the longer run is greater, else the first difference
NatordDigitsRight(a, b, i, j, lastcmp) ==
  LET ll == DigitAt(a, i)
      rr == DigitAt(b, j)
  IN  IF ll # None /\ rr # None
      THEN NatordDigitsRight(a, b, i + 1, j + 1,
                             IF lastcmp = 0 THEN Sign(ll[1], rr[1]) ELSE lastcmp)
      ELSE IF ll # None THEN 1
      ELSE IF rr # None THEN -1
      ELSE IF lastcmp # 0 THEN lastcmp
      ELSE NatordFrom(a, b, i, j)

NatordFrom(a, b, i0, j0) ==
  LET i == SkipSpace(a, i0)
      j == SkipSpace(b, j0)
  IN  IF i > Len(a) /\ j > Len(b) THEN 0
      ELSE IF j > Len(b) THEN 1
      ELSE IF i > Len(a) THEN -1
      ELSE LET ll == DigitAt(a, i)
               rr == DigitAt(b, j)
           IN  IF ll # None /\ rr # None
               THEN IF ll[1] = 0 \/ rr[1] = 0
                    THEN IF ll[1] # rr[1] THEN Sign(ll[1], rr[1])
                         ELSE NatordDigitsLeft(a, b, i + 1, j + 1)
                    ELSE NatordDigitsRight(a, b, i + 1, j + 1, Sign(ll[1], rr[1]))
               ELSE IF a[i] # b[j] THEN Sign(CharCode[a[i]], CharCode[b[j]])
               ELSE NatordFrom(a, b, i + 1, j + 1)

NatordCompare(a, b) == NatordFrom(a, b, 1, 1)

\* Vec::sort_by with natord::compare on the first component of each pair: a
\* stable sort, so the elements the comparator calls equal keep their order
RECURSIVE InsertByName(_, _)
InsertByName(sorted, e) ==
  IF sorted = << >> THEN << e >>
  ELSE IF NatordCompare(sorted[Len(sorted)][1], e[1]) <= 0
       THEN Append(sorted, e)
       ELSE Append(InsertByName(SubSeq(sorted, 1, Len(sorted) - 1), e),
                   sorted[Len(sorted)])

RECURSIVE SortPairs(_)
SortPairs(s) ==
  IF s = << >> THEN << >>
  ELSE InsertByName(SortPairs(SubSeq(s, 1, Len(s) - 1)), s[Len(s)])

\* sort_by(|a, b| natord::compare(key(a), key(b))) with the keys given as a
\* sequence parallel to s
SortByName(s, keys) ==
  LET sorted == SortPairs([i \in 1..Len(s) |-> << keys[i], s[i] >>])
  IN  [i \in 1..Len(s) |-> sorted[i][2]]

\* ------------------------------------------------------------------------
\* scan.rs: classification and discovery
\* ------------------------------------------------------------------------

Ok(v) == [ok |-> TRUE, val |-> v]

Err(e) == [ok |-> FALSE, err |-> e]

RECURSIVE LastDot(_, _)
LastDot(name, i) ==
  IF i = 0 THEN 0 ELSE IF name[i] = "." THEN i ELSE LastDot(name, i - 1)

\* Path::extension: the part of the file name after its last dot; none when
\* the name has no dot or only a leading one
Extension(name) ==
  LET d == LastDot(name, Len(name))
  IN  IF d <= 1 THEN None ELSE Some(SubSeq(name, d + 1, Len(name)))

classify(ext) ==
  LET e == ToLower(ext)
  IN  IF e \in {<<"j", "p", "g">>, <<"j", "p", "e", "g">>, <<"p", "n", "g">>,
                <<"t", "i", "f", "f">>, <<"t", "i", "f">>, <<"w", "e", "b", "p">>}
      THEN Some("Image")
      ELSE IF e \in {<<"m", "p", "4">>, <<"m", "o", "v">>, <<"m", "x", "f">>}
      THEN Some("Video")
      ELSE None

\* A directory entry as the walk yields it: the directory it lies in below the
\* root (<< >> for the root itself), its name, and whether it is a regular file
Entry(dir, name, isFile) == [dir |-> dir, name |-> name, is_file |-> isFile]

\* filter_entry: an entry whose name starts with a dot is skipped, and so is
\* everything below a directory whose name starts with a dot
Hidden(e) ==
  \/ e.name # << >> /\ e.name[1] = "."
  \/ e.dir # << >> /\ e.dir[1] = "."

\* the filter / filter_map chain of discover on one entry
Supported(e) ==
  /\ ~Hidden(e)
  /\ e.is_file
  /\ Extension(e.name) # None
  /\ classify(Extension(e.name)[1]) # None

RECURSIVE CollectAssets(_)
CollectAssets(walk) ==
  IF walk = << >> THEN << >>
  ELSE LET e == walk[1]
           rest == CollectAssets(Tail(walk))
       IN  IF Supported(e)
           THEN << [path |-> [dir |-> e.dir, name |-> e.name],
                    kind |-> classify(Extension(e.name)[1])[1]] >> \o rest
           ELSE rest

\* as discover, without the final ensure on an empty result
discover_EmptyOk(isDir, walk) ==
  IF ~isDir THEN Err("is not a directory")
  ELSE LET collected == CollectAssets(walk)
       IN  Ok(SortByName(collected,
                         [i \in 1..Len(collected) |-> collected[i].path.name]))

\* discover(dir): isDir is dir.is_dir(), walk the entries in the order WalkDir
\* yields them
discover(isDir, walk) ==
  IF ~isDir THEN Err("is not a directory")
  ELSE LET collected == CollectAssets(walk)
           assets == SortByName(collected,
                                [i \in 1..Len(collected) |-> collected[i].path.name])
       IN  IF assets = << >> THEN Err("No supported assets found")
           ELSE Ok(assets)

\* ------------------------------------------------------------------------
\* scan.rs: processing one asset
\* ------------------------------------------------------------------------

\* minimum width of the index in a thumbnail file name ({:04})
ThumbDigits == 4

RECURSIVE Digits(_)
Digits(n) == IF n < 10 THEN << DigitChar(n) >>
             ELSE Append(Digits(n \div 10), DigitChar(n % 10))

RECURSIVE PadZero(_, _)
PadZero(s, width) == IF Len(s) >= width THEN s ELSE PadZero(<< "0" >> \o s, width)

\* as ThumbName, with one file name for every index
ThumbName_Fixed(index) == << "t", "j", ".", "j", "p", "g" >>

\* format!("{:04}.jpg", index)
ThumbName(index) == PadZero(Digits(index), ThumbDigits) \o << ".", "j", "p", "g" >>

\* What the file system and the external tools answer for one asset:
\*   stat    fs::metadata succeeds          decode  image::open succeeds
\*   dims    image_dimensions succeeds      save    the thumbnail is written
\*   exif    a ColorSpace field is read     probe   ffprobe answers with JSON
\*   ffmpeg  the frame extraction succeeds
IoAnswers == [stat : BOOLEAN, decode : BOOLEAN, dims : BOOLEAN, save : BOOLEAN,
              exif : BOOLEAN, probe : BOOLEAN, ffmpeg : BOOLEAN]

AllGood == [stat |-> TRUE, decode |-> TRUE, dims |-> TRUE, save |-> TRUE,
            exif |-> TRUE, probe |-> TRUE, ffmpeg |-> TRUE]

NewAsset(path, kind) ==
  [filename |-> path.name, kind |-> kind, dims |-> None,
   format |-> IF Extension(path.name) = None THEN << >>
              ELSE ToUpper(Extension(path.name)[1]),
   color_space |-> None, duration |-> None, codec |-> None,
   thumbnail_path |-> None]

\* read_exif: attaches the colour space when the field can be read
read_exif(asset, io) ==
  IF io.exif THEN [asset EXCEPT !.color_space = Some("ColorSpace")] ELSE asset

\* process_image; auto_orient only turns the decoded pixels, it cannot fail
process_image(asset, path, index, gen_thumbnails, auto_orient, io) ==
  IF gen_thumbnails
  THEN IF ~io.decode THEN Err(<< "cannot decode", path >>)
       ELSE IF ~io.save THEN Err(<< "cannot save thumbnail", path >>)
       ELSE Ok(read_exif([asset EXCEPT !.dims = Some("WxH"),
                                       !.thumbnail_path = Some(ThumbName(index))],
                         io))
  ELSE IF ~io.dims THEN Err(<< "cannot read dimensions", path >>)
       ELSE Ok(read_exif([asset EXCEPT !.dims = Some("WxH")], io))

\* process_video never fails: every field it cannot get stays absent
process_video(asset, path, index, gen_thumbnails, io) ==
  LET probed == IF io.probe
                THEN [asset EXCEPT !.dims = Some("WxH"), !.codec = Some("codec"),
                                   !.duration = Some("duration")]
                ELSE asset
  IN  IF gen_thumbnails /\ io.ffmpeg
      THEN [probed EXCEPT !.thumbnail_path = Some(ThumbName(index))]
      ELSE probed

process_one(path, kind, index, gen_thumbnails, auto_orient, io) ==
  IF path.name = << >> THEN Err(<< "no filename", path >>)
  ELSE IF ~io.stat THEN Err(<< "cannot stat", path >>)
  ELSE IF kind = "Image"
       THEN process_image(NewAsset(path, kind), path, index, gen_thumbnails,
                          auto_orient, io)
       ELSE Ok(process_video(NewAsset(path, kind), path, index, gen_thumbnails, io))

\* ------------------------------------------------------------------------
\* The run: command line, input directory, threads
\* ------------------------------------------------------------------------

\* the files that may lie in the input directory
Universe ==
  { Entry(<< >>, << "a", "1", "0", ".", "j", "p", "g" >>, TRUE),
    Entry(<< >>, << "a", "2", ".", "J", "P", "G" >>, TRUE),
    Entry(<< >>, << "a", "1", ".", "m", "p", "4" >>, TRUE),
    Entry(<< >>, << "a", "3", ".", "t", "x", "t" >>, TRUE) }

\* the orders in which a walk can yield at most n distinct entries
Walks(n) ==
  UNION { { w \in [1..k -> Universe] : \A i, j \in 1..k : i # j => w[i] # w[j] }
          : k \in 0..n }

\* the answers of the file system and the tools the runs are checked with
RunIo ==
  { AllGood,
    [AllGood EXCEPT !.stat = FALSE],
    [AllGood EXCEPT !.decode = FALSE, !.dims = FALSE],
    [AllGood EXCEPT !.save = FALSE],
    [AllGood EXCEPT !.exif = FALSE, !.probe = FALSE, !.ffmpeg = FALSE] }

VARIABLES
  cli,          \* the parsed command line: no_tui, manifest_only, auto_orient
  fs,           \* the input: is_dir and the entries in walk order
  mpc,          \* position of the main thread
  wpc,          \* position of the pipeline thread ("idle" before it is spawned)
  found,        \* discover's result, in the thread that called it
  wi,           \* the index i of the pipeline's loops
  assets,       \* the successful records collected so far
  errors,       \* process_all's error messages
  results,      \* process_all's parallel map: index -> outcome, None while running
  merr,         \* the error run() returns in the main thread ("" when none)
  werr,         \* the error pipeline() returns ("" when none)
  sent,         \* every message the pipeline thread has sent, in order
  rcvd,         \* how many of them the event loop has received
  app,          \* the dashboard's App
  renderCalls,  \* how often pdf::render was called
  exitStatus    \* "running", then "zero" or "nonzero"

vars == << cli, fs, mpc, wpc, found, wi, assets, errors, results, merr, werr,
           sent, rcvd, app, renderCalls, exitStatus >>

\* App::new; client, date and columns are only displayed, and tick only turns
\* the spinner, so they are left out
NewApp ==
  [phase |-> "Scanning", files |-> << >>, scroll |-> 0, total_found |-> 0,
   processed_count |-> 0, failed_count |-> 0, output_path |-> << >>,
   error_msg |-> None]

\* the state in which run() is entered; auto_orient changes no outcome of the
\* model (it only turns the decoded pixels) and is kept at its default
Init ==
  /\ cli \in [no_tui : BOOLEAN, manifest_only : BOOLEAN, auto_orient : {FALSE}]
  /\ fs \in { [is_dir |-> FALSE, walk |-> << >>] }
            \cup { [is_dir |-> TRUE, walk |-> w] : w \in Walks(MaxFiles) }
  /\ mpc = "start"
  /\ wpc = "idle"
  /\ found = << >>
  /\ wi = 0
  /\ assets = << >>
  /\ errors = << >>
  /\ results = << >>
  /\ merr = ""
  /\ werr = ""
  /\ sent = << >>
  /\ rcvd = 0
  /\ app = NewApp
  /\ renderCalls = 0
  /\ exitStatus = "running"

\* ------------------------------------------------------------------------
\* tui.rs: the background pipeline thread
\* ------------------------------------------------------------------------

\* run() has returned in the main thread: the Receiver is dropped
RxDropped == mpc \in { "returned", "exit" }

\* as Send, with the result unwrapped: the thread panics at a send to a
\* dropped Receiver and goes no further
Send_Unwrap(msg) == ~RxDropped /\ sent' = Append(sent, msg)

\* let _ = tx.send(msg): the channel is unbounded and keeps the order, so
\* the call never waits; the Err it returns once the Receiver is dropped is
\* discarded; sent records every message handed to it
Send(msg) == sent' = Append(sent, msg)

WorkerRuns == exitStatus = "running"

\* as ThreadAfter, with the Error reported whatever pipeline returned
ThreadAfter_Always(ok) == "error"

\* as ThreadAfter, with the result of pipeline() dropped (let _ = pipeline(..))
ThreadAfter_Silent(ok) == "end"

\* the spawned closure on pipeline's result: an Err is reported, an Ok ends
\* the thread
ThreadAfter(ok) == IF ok THEN "end" ELSE "error"

\* scan::discover(input)?
PipelineDiscover ==
  /\ WorkerRuns /\ wpc = "discover"
  /\ LET r == discover(fs.is_dir, fs.walk)
     IN  IF r.ok
         THEN /\ found' = r.val
              /\ wpc' = "found"
              /\ werr' = werr
         ELSE /\ werr' = r.err
              /\ wpc' = ThreadAfter(FALSE)
              /\ found' = found
  /\ wi' = 0
  /\ UNCHANGED << cli, fs, mpc, assets, errors, results, merr, sent, rcvd, app,
                  renderCalls, exitStatus >>

\* one iteration of the loop that announces the discovered assets
PipelineAssetFound ==
  /\ WorkerRuns /\ wpc = "found" /\ wi < Len(found)
  /\ Send([type |-> "AssetFound", filename |-> found[wi + 1].path.name,
           kind |-> IF found[wi + 1].kind = "Image" THEN "image" ELSE "video"])
  /\ wi' = wi + 1
  /\ UNCHANGED << cli, fs, mpc, wpc, found, assets, errors, results, merr, werr,
                  rcvd, app, renderCalls, exitStatus >>

\* as PipelineScanDone, with the total taken from the records instead of the
\* discovered assets
PipelineScanDone_AssetsLen ==
  /\ WorkerRuns /\ wpc = "found" /\ wi = Len(found)
  /\ Send([type |-> "ScanDone", total |-> Len(assets)])
  /\ wpc' = "tempdir"
  /\ UNCHANGED << cli, fs, mpc, found, wi, assets, errors, results, merr, werr,
                  rcvd, app, renderCalls, exitStatus >>

PipelineScanDone ==
  /\ WorkerRuns /\ wpc = "found" /\ wi = Len(found)
  /\ Send([type |-> "ScanDone", total |-> Len(found)])
  /\ wpc' = "tempdir"
  /\ UNCHANGED << cli, fs, mpc, found, wi, assets, errors, results, merr, werr,
                  rcvd, app, renderCalls, exitStatus >>

\* as PipelineTempdir, with the Rendering message sent before the loop
PipelineTempdir_RenderingFirst ==
  /\ WorkerRuns /\ wpc = "tempdir"
  /\ \E created \in BOOLEAN :
       IF created
       THEN wpc' = "processing" /\ werr' = werr
       ELSE wpc' = ThreadAfter(FALSE) /\ werr' = "cannot create temporary directory"
  /\ Send([type |-> "Rendering"])
  /\ wi' = 0
  /\ assets' = << >>
  /\ UNCHANGED << cli, fs, mpc, found, errors, results, merr, rcvd, app,
                  renderCalls, exitStatus >>

\* tempfile::tempdir()? and the set-up of the processing loop
PipelineTempdir ==
  /\ WorkerRuns /\ wpc = "tempdir"
  /\ \E created \in BOOLEAN :
       IF created
       THEN wpc' = "processing" /\ werr' = werr
       ELSE wpc' = ThreadAfter(FALSE) /\ werr' = "cannot create temporary directory"
  /\ wi' = 0
  /\ assets' = << >>
  /\ UNCHANGED << cli, fs, mpc, found, errors, results, merr, sent, rcvd, app,
                  renderCalls, exitStatus >>

PipelineProcessing ==
  /\ WorkerRuns /\ wpc = "processing" /\ wi < Len(found)
  /\ Send([type |-> "Processing", index |-> wi])
  /\ wpc' = "process_one"
  /\ UNCHANGED << cli, fs, mpc, found, wi, assets, errors, results, merr, werr,
                  rcvd, app, renderCalls, exitStatus >>

\* as PipelineOutcomeMsg, with the index counted from one
PipelineOutcomeMsg_FromOne(i, r) ==
  IF r.ok THEN [type |-> "Processed", index |-> i + 1]
  ELSE [type |-> "Failed", index |-> i + 1, error |-> r.err]

\* what the pipeline does with the outcome r of asset i: the message it sends
PipelineOutcomeMsg(i, r) ==
  IF r.ok THEN [type |-> "Processed", index |-> i]
  ELSE [type |-> "Failed", index |-> i, error |-> r.err]

\* as PipelineAfterOutcome, with a failed asset ending the pipeline with its error
PipelineAfterOutcome_Abort(r) == IF r.ok THEN "processing" ELSE "error"

\* where the pipeline goes after the outcome of an asset: on to the next one
PipelineAfterOutcome(r) == "processing"

PipelineProcessOne ==
  /\ WorkerRuns /\ wpc = "process_one"
  /\ \E io \in RunIo :
       LET r == process_one(found[wi + 1].path, found[wi + 1].kind, wi, TRUE,
                            cli.auto_orient, io)
       IN  /\ Send(PipelineOutcomeMsg(wi, r))
           /\ assets' = IF r.ok THEN Append(assets, r.val) ELSE assets
           /\ wpc' = PipelineAfterOutcome(r)
  /\ wi' = wi + 1
  /\ UNCHANGED << cli, fs, mpc, found, errors, results, merr, werr, rcvd, app,
                  renderCalls, exitStatus >>

\* the sort of the records and the Rendering message
PipelineRendering ==
  /\ WorkerRuns /\ wpc = "processing" /\ wi = Len(found)
  /\ assets' = SortByName(assets, [i \in 1..Len(assets) |-> assets[i].filename])
  /\ Send([type |-> "Rendering"])
  /\ wpc' = "render"
  /\ UNCHANGED << cli, fs, mpc, found, wi, errors, results, merr, werr, rcvd,
                  app, renderCalls, exitStatus >>

\* pdf::render(..)? and, when it succeeded, the Done message
PipelineRender ==
  /\ WorkerRuns /\ wpc = "render"
  /\ renderCalls' = renderCalls + 1
  /\ \E rendered \in BOOLEAN :
       IF rendered
       THEN /\ Send([type |-> "Done", output |-> << "o", "u", "t" >>,
                     total |-> Len(assets)])
            /\ wpc' = ThreadAfter(TRUE)
            /\ werr' = werr
       ELSE /\ wpc' = ThreadAfter(FALSE)
            /\ werr' = "render failed"
            /\ sent' = sent
  /\ UNCHANGED << cli, fs, mpc, found, wi, assets, errors, results, merr, rcvd,
                  app, exitStatus >>

\* the spawned closure: if let Err(e) = pipeline(..) { tx.send(Msg::Error(..)) }
PipelineError ==
  /\ WorkerRuns /\ wpc = "error"
  /\ Send([type |-> "Error", msg |-> werr])
  /\ wpc' = "end"
  /\ UNCHANGED << cli, fs, mpc, found, wi, assets, errors, results, merr, werr,
                  rcvd, app, renderCalls, exitStatus >>

\* ------------------------------------------------------------------------
\* tui.rs: the dashboard's event loop (main thread)
\* ------------------------------------------------------------------------

SaturatingSub(a, b) == IF a >= b THEN a - b ELSE 0

\* files.get_mut(index) with f.status = status
SetStatus(files, index, status) ==
  IF index < Len(files)
  THEN [files EXCEPT ![index + 1].status = status]
  ELSE files

\* as OnAssetFound, with the new entry put in front (files.insert(0, ..))
OnAssetFound_Front(a, msg) ==
  LET pushed == << [filename |-> msg.filename, kind |-> msg.kind,
                    status |-> << "Pending" >>] >> \o a.files
  IN  [a EXCEPT !.files = pushed, !.total_found = Len(pushed)]

\* as OnAssetFound, with the view following the newest entry
\* (app.scroll = app.files.len() - 1)
OnAssetFound_Follow(a, msg) ==
  LET pushed == Append(a.files, [filename |-> msg.filename, kind |-> msg.kind,
                                 status |-> << "Pending" >>])
  IN  [a EXCEPT !.files = pushed, !.total_found = Len(pushed),
                !.scroll = Len(pushed) - 1]

\* Msg::AssetFound
OnAssetFound(a, msg) ==
  LET pushed == Append(a.files, [filename |-> msg.filename, kind |-> msg.kind,
                                 status |-> << "Pending" >>])
  IN  [a EXCEPT !.files = pushed, !.total_found = Len(pushed)]

\* Msg::ScanDone
OnScanDone(a, msg) == [a EXCEPT !.total_found = msg.total, !.phase = "Processing"]

\* as OnProcessing, with the message dropped (a `_ => {}` arm takes it)
OnProcessing_Ignored(a, msg) == a

\* Msg::Processing
OnProcessing(a, msg) ==
  [a EXCEPT !.files = SetStatus(a.files, msg.index, << "Processing" >>)]

\* as OnProcessed, with the counter bumped and the entry left as it is
OnProcessed_CountsOnly(a, msg) ==
  [a EXCEPT !.processed_count = a.processed_count + 1]

\* as OnProcessed, with the phase set to Complete on the last asset
OnProcessed_Completes(a, msg) ==
  [a EXCEPT !.files = SetStatus(a.files, msg.index, << "Done" >>),
            !.processed_count = a.processed_count + 1,
            !.phase = IF a.processed_count + 1 = a.total_found
                      THEN "Complete" ELSE a.phase]

\* Msg::Processed
OnProcessed(a, msg) ==
  [a EXCEPT !.files = SetStatus(a.files, msg.index, << "Done" >>),
            !.processed_count = a.processed_count + 1]

\* as OnFailed, with the counters bumped and the entry left as it is
OnFailed_CountsOnly(a, msg) ==
  [a EXCEPT !.failed_count = a.failed_count + 1,
            !.processed_count = a.processed_count + 1]

\* Msg::Failed
OnFailed(a, msg) ==
  [a EXCEPT !.files = SetStatus(a.files, msg.index, << "Failed", msg.error >>),
            !.failed_count = a.failed_count + 1,
            !.processed_count = a.processed_count + 1]

\* Msg::Rendering
OnRendering(a, msg) == [a EXCEPT !.phase = "Rendering"]

\* Msg::Done
OnDone(a, msg) ==
  [a EXCEPT !.phase = "Complete", !.output_path = msg.output,
            !.processed_count = msg.total]

\* Msg::Error
OnError(a, msg) == [a EXCEPT !.phase = "Failed", !.error_msg = Some(msg.msg)]

\* the match of the drain loop on one received message
ApplyMsg(a, msg) ==
  CASE msg.type = "AssetFound" -> OnAssetFound(a, msg)
    [] msg.type = "ScanDone" -> OnScanDone(a, msg)
    [] msg.type = "Processing" -> OnProcessing(a, msg)
    [] msg.type = "Processed" -> OnProcessed(a, msg)
    [] msg.type = "Failed" -> OnFailed(a, msg)
    [] msg.type = "Rendering" -> OnRendering(a, msg)
    [] msg.type = "Done" -> OnDone(a, msg)
    [] msg.type = "Error" -> OnError(a, msg)

\* the keys the loop tells apart; "none" is a poll that timed out
Keys == { "none", "quit", "down", "up", "enter", "other" }

\* as KeyExits, without the guard on the phase in the Enter arm
KeyExits_EnterAlways(a, key) == key \in { "quit", "enter" }

\* whether the key makes the loop return Ok(())
KeyExits(a, key) ==
  \/ key = "quit"
  \/ key = "enter" /\ a.phase \in { "Complete", "Failed" }

\* the effect of a key that does not end the loop
HandleKey(a, key) ==
  CASE key = "down" ->
         IF a.scroll < SaturatingSub(Len(a.files), 1)
         THEN [a EXCEPT !.scroll = a.scroll + 1]
         ELSE a
    [] key = "up" -> [a EXCEPT !.scroll = SaturatingSub(a.scroll, 1)]
    [] OTHER -> a

\* draw_files: the rows left for entries in an area of the given height
VisibleRows(height) == SaturatingSub(height, 2)

\* the exit status main gives the result of run()
ExitOf(ok) == IF ok THEN "zero" ELSE "nonzero"

\* terminal.draw, event::poll and event::read succeed; the match on the key
LoopInput ==
  /\ mpc = "poll"
  /\ \E key \in Keys :
       IF KeyExits(app, key)
       THEN mpc' = "restore" /\ app' = app
       ELSE mpc' = "drain" /\ app' = HandleKey(app, key)
  /\ UNCHANGED << cli, fs, wpc, found, wi, assets, errors, results, merr, werr,
                  sent, rcvd, renderCalls, exitStatus >>

\* terminal.draw, event::poll or event::read fails: the ? returns the error
LoopIoError ==
  /\ mpc = "poll"
  /\ mpc' = "restore"
  /\ merr' = "terminal error"
  /\ UNCHANGED << cli, fs, wpc, found, wi, assets, errors, results, werr, sent,
                  rcvd, app, renderCalls, exitStatus >>

\* as LoopRecv, with a drain loop whose condition takes a message of its own
\* (while rx.try_recv().is_ok() { if let Ok(msg) = rx.try_recv() { .. } })
LoopRecv_Lossy ==
  /\ mpc = "drain" /\ rcvd < Len(sent)
  /\ app' = IF rcvd % 2 = 0 THEN app ELSE ApplyMsg(app, sent[rcvd + 1])
  /\ rcvd' = rcvd + 1
  /\ UNCHANGED << cli, fs, mpc, wpc, found, wi, assets, errors, results, merr,
                  werr, sent, renderCalls, exitStatus >>

\* rx.try_recv() returned a message
LoopRecv ==
  /\ mpc = "drain" /\ rcvd < Len(sent)
  /\ app' = ApplyMsg(app, sent[rcvd + 1])
  /\ rcvd' = rcvd + 1
  /\ UNCHANGED << cli, fs, mpc, wpc, found, wi, assets, errors, results, merr,
                  werr, sent, renderCalls, exitStatus >>

\* rx.try_recv() found the channel empty: the drain ends, the loop starts over
LoopDrained ==
  /\ mpc = "drain" /\ rcvd = Len(sent)
  /\ mpc' = "poll"
  /\ UNCHANGED << cli, fs, wpc, found, wi, assets, errors, results, merr, werr,
                  sent, rcvd, app, renderCalls, exitStatus >>

\* ratatui::restore(); run returns the loop's result, which drops rx
TuiReturn ==
  /\ mpc = "restore"
  /\ mpc' = "returned"
  /\ UNCHANGED << cli, fs, wpc, found, wi, assets, errors, results, merr, werr,
                  sent, rcvd, app, renderCalls, exitStatus >>

\* main exits with the result of run(); the process ends, and the pipeline
\* thread with it wherever it is
TuiExit ==
  /\ mpc = "returned"
  /\ mpc' = "exit"
  /\ exitStatus' = ExitOf(merr = "")
  /\ UNCHANGED << cli, fs, wpc, found, wi, assets, errors, results, merr, werr,
                  sent, rcvd, app, renderCalls >>

\* ------------------------------------------------------------------------
\* main.rs: run, and scan.rs: process_all
\* ------------------------------------------------------------------------

\* TUI mode is the default unless --no-tui or --manifest-only
TuiMode(c) == ~c.no_tui /\ ~c.manifest_only

\* the dispatch of run(): the dashboard with its pipeline thread, or the plain run
MainStart ==
  /\ mpc = "start"
  /\ IF TuiMode(cli)
     THEN mpc' = "poll" /\ wpc' = "discover"
     ELSE mpc' = "discover" /\ wpc' = wpc
  /\ UNCHANGED << cli, fs, found, wi, assets, errors, results, merr, werr, sent,
                  rcvd, app, renderCalls, exitStatus >>

\* run() returns Err(e): main prints it and exits with status 1
Bail(e) ==
  /\ merr' = e
  /\ mpc' = "exit"
  /\ exitStatus' = ExitOf(FALSE)

\* run() returns Ok(())
Finish ==
  /\ merr' = merr
  /\ mpc' = "exit"
  /\ exitStatus' = ExitOf(TRUE)

MainDiscover ==
  /\ mpc = "discover"
  /\ LET r == discover(fs.is_dir, fs.walk)
     IN  IF r.ok
         THEN /\ found' = r.val
              /\ mpc' = "tempdir"
              /\ UNCHANGED << merr, exitStatus >>
         ELSE /\ Bail(r.err)
              /\ found' = found
  /\ UNCHANGED << cli, fs, wpc, wi, assets, errors, results, werr, sent, rcvd,
                  app, renderCalls >>

\* tempfile::tempdir()?, then process_all starts its parallel map
MainTempdir ==
  /\ mpc = "tempdir"
  /\ \E created \in BOOLEAN :
       IF created
       THEN /\ mpc' = "process_all"
            /\ results' = [i \in 1..Len(found) |-> None]
            /\ UNCHANGED << merr, exitStatus >>
       ELSE /\ Bail("cannot create temporary directory")
            /\ results' = results
  /\ UNCHANGED << cli, fs, wpc, found, wi, assets, errors, werr, sent, rcvd,
                  app, renderCalls >>

\* one task of the parallel map finishes: the tasks complete in any order
ProcessAllTask ==
  /\ mpc = "process_all"
  /\ \E i \in 1..Len(found) :
       /\ results[i] = None
       /\ \E io \in RunIo :
            results' = [results EXCEPT ![i] =
                          Some(process_one(found[i].path, found[i].kind, i - 1,
                                           ~cli.manifest_only, cli.auto_orient, io))]
  /\ UNCHANGED << cli, fs, mpc, wpc, found, wi, assets, errors, merr, werr,
                  sent, rcvd, app, renderCalls, exitStatus >>

\* as Processed, with the collection given up at the first failed outcome
RECURSIVE Processed_UntilError(_)
Processed_UntilError(rs) ==
  IF rs = << >> THEN << >>
  ELSE IF rs[1][1].ok THEN << rs[1][1].val >> \o Processed_UntilError(Tail(rs))
       ELSE << >>

\* the successful records of the collected outcomes, in index order
RECURSIVE Processed(_)
Processed(rs) ==
  IF rs = << >> THEN << >>
  ELSE IF rs[1][1].ok THEN << rs[1][1].val >> \o Processed(Tail(rs))
       ELSE Processed(Tail(rs))

\* the messages of the failed outcomes, in index order
RECURSIVE ErrorsOf(_)
ErrorsOf(rs) ==
  IF rs = << >> THEN << >>
  ELSE IF rs[1][1].ok THEN ErrorsOf(Tail(rs))
       ELSE << rs[1][1].err >> \o ErrorsOf(Tail(rs))

\* as process_all, with the arguments of the comparator swapped
\* (natord::compare(&b.filename, &a.filename))
process_all_Descending(rs) ==
  LET processed == Processed(rs)
      sorted == SortByName(processed,
                           [i \in 1..Len(processed) |-> processed[i].filename])
  IN  << [i \in 1..Len(sorted) |-> sorted[Len(sorted) + 1 - i]], ErrorsOf(rs) >>

\* process_all's return value: the partition of the outcomes and the sort
process_all(rs) ==
  LET processed == Processed(rs)
  IN  << SortByName(processed, [i \in 1..Len(processed) |-> processed[i].filename]),
         ErrorsOf(rs) >>

\* collect() has every outcome: process_all returns
ProcessAllReturn ==
  /\ mpc = "process_all"
  /\ \A i \in 1..Len(found) : results[i] # None
  /\ assets' = process_all(results)[1]
  /\ errors' = process_all(results)[2]
  /\ mpc' = "check"
  /\ UNCHANGED << cli, fs, wpc, found, wi, results, merr, werr, sent, rcvd,
                  app, renderCalls, exitStatus >>

\* whether run() gives up after processing
NothingProcessed(as) == as = << >>

\* the report of the skipped files, the bail on an empty result, the manifest
MainCheck ==
  /\ mpc = "check"
  /\ IF NothingProcessed(assets) THEN Bail("No assets could be processed")
     ELSE IF cli.manifest_only THEN Finish
     ELSE mpc' = "render" /\ UNCHANGED << merr, exitStatus >>
  /\ UNCHANGED << cli, fs, wpc, found, wi, assets, errors, results, werr, sent,
                  rcvd, app, renderCalls >>

\* pdf::render(..)? and the end of run()
MainRender ==
  /\ mpc = "render"
  /\ renderCalls' = renderCalls + 1
  /\ \E rendered \in BOOLEAN :
       IF rendered THEN Finish ELSE Bail("render failed")
  /\ UNCHANGED << cli, fs, wpc, found, wi, assets, errors, results, werr, sent,
                  rcvd, app >>

\* ------------------------------------------------------------------------
\* The program
\* ------------------------------------------------------------------------

Next ==
  \/ MainStart
  \/ MainDiscover
  \/ MainTempdir
  \/ ProcessAllTask
  \/ ProcessAllReturn
  \/ MainCheck
  \/ MainRender
  \/ PipelineDiscover
  \/ PipelineAssetFound
  \/ PipelineScanDone
  \/ PipelineTempdir
  \/ PipelineProcessing
  \/ PipelineProcessOne
  \/ PipelineRendering
  \/ PipelineRender
  \/ PipelineError
  \/ LoopInput
  \/ LoopIoError
  \/ LoopRecv
  \/ LoopDrained
  \/ TuiReturn
  \/ TuiExit

Spec == Init /\ [][Next]_vars

\* ------------------------------------------------------------------------
\* event_loop on its own: the receiver it is given may carry any messages
\* ------------------------------------------------------------------------

\* most messages a sender puts into the channel of the loop on its own
MaxSent == 3

\* values of Msg
AnyMsgs ==
  { [type |-> "AssetFound", filename |-> << "a", "1", ".", "m", "p", "4" >>,
     kind |-> "video"],
    [type |-> "ScanDone", total |-> 1],
    [type |-> "Processing", index |-> 0],
    [type |-> "Processed", index |-> 0],
    [type |-> "Failed", index |-> 0, error |-> "cannot stat"],
    [type |-> "Rendering"],
    [type |-> "Done", output |-> << "o", "u", "t" >>, total |-> 1],
    [type |-> "Error", msg |-> "render failed"] }

\* event_loop is entered with a fresh App and an empty channel
InitLoop ==
  /\ cli = [no_tui |-> FALSE, manifest_only |-> FALSE, auto_orient |-> FALSE]
  /\ fs = [is_dir |-> TRUE, walk |-> << >>]
  /\ mpc = "poll"
  /\ wpc = "idle"
  /\ found = << >>
  /\ wi = 0
  /\ assets = << >>
  /\ errors = << >>
  /\ results = << >>
  /\ merr = ""
  /\ werr = ""
  /\ sent = << >>
  /\ rcvd = 0
  /\ app = NewApp
  /\ renderCalls = 0
  /\ exitStatus = "running"

\* the holder of the Sender sends a message
AnySend ==
  /\ exitStatus = "running"
  /\ Len(sent) < MaxSent
  /\ \E m \in AnyMsgs : Send(m)
  /\ UNCHANGED << cli, fs, mpc, wpc, found, wi, assets, errors, results, merr,
                  werr, rcvd, app, renderCalls, exitStatus >>

NextLoop ==
  \/ AnySend
  \/ LoopInput
  \/ LoopIoError
  \/ LoopRecv
  \/ LoopDrained
  \/ TuiReturn
  \/ TuiExit

SpecLoop == InitLoop /\ [][NextLoop]_vars

\* ------------------------------------------------------------------------
\* The event stream of the pipeline thread
\* ------------------------------------------------------------------------

Positions(types) == { k \in 1..Len(sent) : sent[k].type \in types }

Finishing == { "Processed", "Failed" }

ItemEvents == { "Processing", "Processed", "Failed" }

\* C1: for every index in the event stream, Processing{i} is sent before the
\* matching Processed{i} or Failed{i}; no index occurs twice among the
\* Processing events nor twice among the Processed/Failed events.
C1_ProcessingPrecedesOutcome ==
  LET started == Positions({"Processing"})
      finished == Positions(Finishing)
  IN  /\ \A k \in finished :
           \E j \in started : j < k /\ sent[j].index = sent[k].index
      /\ \A j, k \in started : sent[j].index = sent[k].index => j = k
      /\ \A j, k \in finished : sent[j].index = sent[k].index => j = k

\* both kinds of outcome have been sent, for two different assets
C1_Witness ==
  /\ Positions({"Processed"}) # {}
  /\ Positions({"Failed"}) # {}

\* C2: Done or Error is the last event of a run: nothing is sent after a Done
\* or an Error, so a run never sends both.
C2_DoneOrErrorIsLast ==
  \A k \in Positions({"Done", "Error"}) : k = Len(sent)

\* the thread has ended after an Error that followed other events
C2_Witness ==
  /\ wpc = "end"
  /\ Len(sent) > 3
  /\ sent[Len(sent)].type = "Error"

\* C3: Rendering is sent at most once and after every Processing, Processed
\* and Failed event of the run.
C3_RenderingAfterItems ==
  LET before == Positions(ItemEvents \cup {"Rendering"})
  IN  \A k \in Positions({"Rendering"}) : \A j \in before : j <= k

\* Rendering has been sent after the events of two assets
C3_Witness ==
  /\ Positions({"Rendering"}) # {}
  /\ Cardinality(Positions(Finishing)) = 2

\* C4: ScanDone is sent after every AssetFound and carries the number of
\* AssetFound events before it, so the dashboard's entry count equals its
\* recorded total once it has left the Scanning phase.
C4_ScanDoneAfterAssets ==
  /\ \A k \in Positions({"ScanDone"}) :
       /\ \A j \in Positions({"AssetFound"}) : j < k
       /\ sent[k].total = Cardinality(Positions({"AssetFound"}))
  /\ app.phase # "Scanning" => Len(app.files) = app.total_found

\* the dashboard has left Scanning on a ScanDone that followed two AssetFound
C4_Witness ==
  /\ app.phase = "Processing"
  /\ Len(app.files) = 2
  /\ rcvd = 3

\* ------------------------------------------------------------------------
\* The dashboard
\* ------------------------------------------------------------------------

\* C5: the phases Complete and Failed are terminal: a message received in
\* one of them is ignored, it leaves the phase, the entries, the counters, the
\* output location and the error message as they are.
C5_TerminalIgnoresEvents ==
  [][(app.phase \in {"Complete", "Failed"} /\ rcvd' = rcvd + 1)
       => /\ app'.phase = app.phase
          /\ app'.files = app.files
          /\ app'.total_found = app.total_found
          /\ app'.processed_count = app.processed_count
          /\ app'.failed_count = app.failed_count
          /\ app'.output_path = app.output_path
          /\ app'.error_msg = app.error_msg]_vars

\* C6: with the pipeline thread as the sender, the phase changes only on the
\* receipt of a message and only along the table: Scanning to Processing on
\* ScanDone, Processing to Rendering on Rendering, Rendering to Complete on
\* Done, any phase to Failed on Error; and each of these messages is received
\* in the phase the table names for it.
C6_PhaseTransitions ==
  [][/\ app'.phase # app.phase => rcvd' = rcvd + 1
     /\ rcvd' = rcvd + 1 =>
          LET m == sent[rcvd + 1]
              from == app.phase
              to == app'.phase
          IN  CASE m.type = "ScanDone" -> from = "Scanning" /\ to = "Processing"
                [] m.type = "Rendering" -> from = "Processing" /\ to = "Rendering"
                [] m.type = "Done" -> from = "Rendering" /\ to = "Complete"
                [] m.type = "Error" ->
                     from \in {"Scanning", "Processing", "Rendering"} /\ to = "Failed"
                [] OTHER -> to = from]_vars

\* the dashboard went through every phase up to Complete, with a failed asset
C6_Witness ==
  /\ app.phase = "Complete"
  /\ app.failed_count = 1
  /\ Len(app.files) = 2

\* ------------------------------------------------------------------------
\* Failures of single assets
\* ------------------------------------------------------------------------

ProcessAllReturned ==
  /\ ~TuiMode(cli)
  /\ mpc \in {"check", "render", "exit"}
  /\ results # << >>

FailedOutcomes == { i \in 1..Len(results) : ~results[i][1].ok }

\* C7: process_all over N assets of which K fail returns N - K records and K
\* error messages, whatever the order in which the parallel tasks finish.
C7_PartialFailureIsolation ==
  ProcessAllReturned =>
    /\ Len(results) = Len(found)
    /\ Len(assets) = Len(found) - Cardinality(FailedOutcomes)
    /\ Len(errors) = Cardinality(FailedOutcomes)

\* process_all returned with the first of two assets failed
C7_Witness ==
  /\ ProcessAllReturned
  /\ Len(found) = 2
  /\ FailedOutcomes = {1}
  /\ Len(assets) = 1

IsItemEvent(m) == m.type \in ItemEvents

ItemStream == SelectSeq(sent, IsItemEvent)

\* the pipeline is past its processing loop
LoopLeft ==
  /\ wpc \in {"render", "end", "error"}
  /\ ItemStream # << >> \/ Positions({"Rendering"}) # {}

\* C8: in live mode the events of the processing loop are Processing{0}, its
\* outcome, Processing{1}, its outcome, and so on in index order, whatever
\* fails; once the pipeline is past the loop every discovered asset has had
\* its Processing and its Processed or Failed.
C8_FailureDoesNotAbortSiblings ==
  LET items == ItemStream
  IN  /\ \A k \in 1..Len(items) :
           IF k % 2 = 1
           THEN items[k] = [type |-> "Processing", index |-> (k - 1) \div 2]
           ELSE /\ items[k].type \in Finishing
                /\ items[k].index = (k \div 2) - 1
      /\ Len(items) <= 2 * Len(found)
      /\ LoopLeft => Len(items) = 2 * Len(found)

\* the pipeline is past the loop, and Failed{0} was followed by Processing{1}
C8_Witness ==
  /\ LoopLeft
  /\ \E k \in 1..(Len(sent) - 1) :
       /\ sent[k].type = "Failed" /\ sent[k].index = 0
       /\ sent[k + 1] = [type |-> "Processing", index |-> 1]

\* ------------------------------------------------------------------------
\* Fatal errors
\* ------------------------------------------------------------------------

\* the processing loop of the pipeline ended without a successful record
LiveAllFailed ==
  /\ LoopLeft
  /\ Len(found) > 0
  /\ Cardinality(Positions({"Failed"})) = Len(found)

\* process_all returned without a successful record
PlainAllFailed ==
  /\ ProcessAllReturned
  /\ mpc \in {"render", "exit"}
  /\ Cardinality(FailedOutcomes) = Len(found)

\* C9: zero successful outcomes after processing abort the run in both modes:
\* the plain run returns an error without rendering, the pipeline ends with
\* an Error and never with Rendering followed by Done.
C9_ZeroSuccessIsFatal ==
  /\ PlainAllFailed => exitStatus = "nonzero" /\ renderCalls = 0
  /\ LiveAllFailed =>
       /\ Positions({"Rendering", "Done"}) = {}
       /\ renderCalls = 0
       /\ app.phase \notin {"Rendering", "Complete"}
       /\ wpc = "end" => sent[Len(sent)].type = "Error"

\* C10: the program exits with a non-zero status on any fatal error, in the
\* dashboard as in the plain run, and with zero otherwise: a dashboard that
\* showed the pipeline's Error (phase Failed) and was dismissed exits non-zero.
C10_ExitStatus ==
  mpc = "exit" =>
    LET fatal == merr # "" \/ (TuiMode(cli) /\ app.phase = "Failed")
    IN  exitStatus = IF fatal THEN "nonzero" ELSE "zero"

\* ------------------------------------------------------------------------
\* process_one: which steps fail an asset
\* ------------------------------------------------------------------------

\* the failed step named by each failed outcome of process_one, in the plain
\* run (results) and in the dashboard run (the Failed messages)
FailureCauses ==
  { results[i][1].err[1] :
      i \in { k \in 1..Len(results) : results[k] # None /\ ~results[k][1].ok } }
  \cup { sent[k].error[1] : k \in Positions({"Failed"}) }

\* C11: process_one fails only when the file cannot be stat'ed or the image
\* cannot be decoded (in full, or its header for the dimensions); no other
\* step, the writing of an image's thumbnail included, fails the asset.
C11_OnlyStatAndDecodeFail ==
  FailureCauses \subseteq {"cannot stat", "cannot decode", "cannot read dimensions"}

\* ------------------------------------------------------------------------
\* The view offset
\* ------------------------------------------------------------------------

\* tallest area of the file list the offsets are checked for
MaxHeight == 4

Heights == 0..MaxHeight

\* draw_files clamps the offset it draws from to this entry, for the frame
\* only: max(0, entryCount - visibleRows)
LastStart(a, height) == SaturatingSub(Len(a.files), VisibleRows(height))

\* C12: at every moment the stored view offset lies in
\* [0, max(0, entryCount - visibleRows)], whatever the height of the list.
C12_StoredOffsetClamped ==
  \A h \in Heights : app.scroll \in 0..LastStart(app, h)

\* ------------------------------------------------------------------------
\* Keys
\* ------------------------------------------------------------------------

\* the phases in which the run is over
TerminalPhases == { "Complete", "Failed" }

\* the match on the key, in a state where the loop reads one
KeyMatch ==
  mpc = "poll" =>
    /\ KeyExits(app, "quit")
    /\ KeyExits(app, "enter") <=> app.phase \in TerminalPhases
    /\ app.phase \notin TerminalPhases => HandleKey(app, "enter") = app

\* C13: whenever the loop reads a key, q/Esc makes it return whatever the
\* phase; Enter makes it return exactly in Complete and Failed, and in
\* Scanning, Processing and Rendering it leaves the whole App as it is; and
\* a key that does not end the loop changes nothing but the view offset.
C13_ExitKeys ==
  /\ []KeyMatch
  /\ [][mpc = "poll" /\ mpc' = "drain"
          => app' = [app EXCEPT !.scroll = app'.scroll]]_vars

\* the loop returned Ok(()) while the pipeline was still processing
C13_Witness ==
  /\ mpc = "restore"
  /\ merr = ""
  /\ app.phase = "Processing"
  /\ wpc = "process_one"

\* ------------------------------------------------------------------------
\* Drains and keys
\* ------------------------------------------------------------------------

\* the messages applied one after the other to the App a
RECURSIVE FoldMsgs(_, _)
FoldMsgs(a, msgs) ==
  IF msgs = << >> THEN a ELSE FoldMsgs(ApplyMsg(a, msgs[1]), Tail(msgs))

\* C14: however the stream is split into drains and whatever keys come in
\* between, the App after the first n messages is, but for the view offset,
\* the fresh App with these n messages applied in order, each once; so the
\* state after the whole stream depends on the stream alone.
C14_StateIsFoldOfStream ==
  [app EXCEPT !.scroll = 0] = FoldMsgs(NewApp, SubSeq(sent, 1, rcvd))

\* the whole stream of a run with two assets is consumed, with a Down key
\* somewhere between the drains
C14_Witness ==
  /\ wpc = "end"
  /\ rcvd = Len(sent)
  /\ app.phase = "Complete"
  /\ Len(app.files) = 2
  /\ app.scroll = 1

\* ------------------------------------------------------------------------
\* The pipeline thread and the dashboard
\* ------------------------------------------------------------------------

\* the guard and the send of PipelineRendering; the sort that precedes the
\* send computes a value and cannot wait
RenderingSend ==
  /\ WorkerRuns /\ wpc = "processing" /\ wi = Len(found)
  /\ Send([type |-> "Rendering"])

\* a step of the pipeline thread that hands a message to tx.send
SendingStep ==
  \/ PipelineAssetFound
  \/ PipelineScanDone
  \/ PipelineProcessing
  \/ PipelineProcessOne
  \/ RenderingSend
  \/ PipelineRender
  \/ PipelineError

\* the pipeline thread is at a step that sends
AtSend == wpc \in { "found", "processing", "process_one", "render", "error" }

\* C15: as stated, the pipeline thread never waits for the dashboard and is
\* never stopped by it: whatever the dashboard has consumed, and after the
\* loop has exited and the Receiver is dropped, its next sending step is
\* possible, until it has performed all of them.
C15_WorkerRunsToEnd == AtSend => ENABLED SendingStep

\* C15, amended: as long as the process runs, the thread's next sending step
\* is possible whatever the dashboard has consumed and whether or not the
\* Receiver is dropped; once main has exited after the loop, the thread
\* performs no further step.
C15_WorkerNeverBlocks ==
  /\ [](WorkerRuns /\ AtSend => ENABLED SendingStep)
  /\ [][~WorkerRuns => /\ wpc' = wpc
                       /\ sent' = sent
                       /\ assets' = assets
                       /\ renderCalls' = renderCalls]_vars

\* the Receiver was dropped before anything was received, the process has
\* not ended yet, and the pipeline went on through both assets to its Done
C15_Witness ==
  /\ mpc = "returned"
  /\ rcvd = 0
  /\ wpc = "end"
  /\ Len(found) = 2
  /\ sent[Len(sent)].type = "Done"

\* ------------------------------------------------------------------------
\* Indices
\* ------------------------------------------------------------------------

IsAssetFound(m) == m.type = "AssetFound"

\* the AssetFound messages sent so far, in order
Announced == SelectSeq(sent, IsAssetFound)

\* the status the item event m gives its entry
StatusOf(m) ==
  CASE m.type = "Processing" -> << "Processing" >>
    [] m.type = "Processed" -> << "Done" >>
    [] m.type = "Failed" -> << "Failed", m.error >>

\* C16: in the dashboard run the index i means the i-th discovered asset
\* everywhere: the i-th AssetFound and the entry at position i carry its file
\* name and kind, every Processing{i}, Processed{i} and Failed{i} has an index
\* below the number of discovered assets, a Failed{i} names its path, the
\* entry at position i shows the latest received item event with index i,
\* and a record with a thumbnail has the thumbnail named after the index of
\* its asset.
C16_IndexIdentity ==
  TuiMode(cli) =>
    LET announced == Announced
        items == Positions(ItemEvents)
        done == { sent[k].index : k \in Positions({"Processed"}) }
    IN  /\ Len(announced) <= Len(found)
        /\ \A i \in 1..Len(announced) :
             /\ announced[i].filename = found[i].path.name
             /\ announced[i].kind =
                  IF found[i].kind = "Image" THEN "image" ELSE "video"
        /\ Len(app.files) <= Len(announced)
        /\ \A i \in 1..Len(app.files) :
             LET received == { k \in items : k <= rcvd /\ sent[k].index = i - 1 }
             IN  /\ app.files[i].filename = found[i].path.name
                 /\ app.files[i].kind = announced[i].kind
                 /\ app.files[i].status =
                      IF received = {} THEN << "Pending" >>
                      ELSE StatusOf(sent[CHOOSE k \in received :
                                           \A l \in received : l <= k])
        /\ \A k \in items :
             /\ sent[k].index \in 0..(Len(found) - 1)
             /\ sent[k].index < Len(announced)
             /\ sent[k].type = "Failed" =>
                  sent[k].error[2] = found[sent[k].index + 1].path
        /\ \A n \in 1..Len(assets) :
             \E i \in 1..Len(found) :
               /\ assets[n].filename = found[i].path.name
               /\ i - 1 \in done
               /\ assets[n].thumbnail_path \in { None, Some(ThumbName(i - 1)) }

\* the second discovered asset failed and the first has its thumbnail; both
\* entries show it
C16_Witness ==
  /\ TuiMode(cli)
  /\ Len(app.files) = 2
  /\ app.files[1].status = << "Done" >>
  /\ app.files[2].status[1] = "Failed"
  /\ Len(assets) = 1
  /\ assets[1].thumbnail_path = Some(ThumbName(0))

\* ------------------------------------------------------------------------
\* The order of process_all's records
\* ------------------------------------------------------------------------

\* the sequence of records is in natural order of the file names
NaturallySorted(as) ==
  \A i, j \in 1..Len(as) :
    i < j => NatordCompare(as[i].filename, as[j].filename) <= 0

\* C17: whatever the order in which the parallel tasks finish, the records
\* process_all returns are in natural order of their file names, and they are
\* the successful outcomes in the order of their assets: the sequence is
\* fixed by the assets and their outcomes.
C17_RecordsInNaturalOrder ==
  ProcessAllReturned =>
    /\ NaturallySorted(assets)
    /\ assets = Processed(results)

\* process_all returned a2.JPG before a10.jpg
C17_Witness ==
  /\ ProcessAllReturned
  /\ Len(assets) = 2
  /\ assets[1].filename = << "a", "2", ".", "J", "P", "G" >>
  /\ assets[2].filename = << "a", "1", "0", ".", "j", "p", "g" >>

\* ------------------------------------------------------------------------
\* Discovery without a result
\* ------------------------------------------------------------------------

\* the pipeline thread or the plain run is past its call of discover
PastDiscover ==
  \/ wpc \in { "found", "tempdir", "processing", "process_one", "render" }
  \/ mpc \in { "tempdir", "process_all", "check", "render" }

\* C18: discover never returns an empty list: an input that is not a
\* directory fails with "is not a directory", a directory without a supported,
\* unhidden file fails with "No supported assets found", and a run that is
\* past discover has at least one asset. In the dashboard run such a failure
\* makes Error the only message of the pipeline, and the dashboard goes from
\* Scanning to Failed without an entry.
C18_NoEmptyDiscovery ==
  LET none == \A i \in 1..Len(fs.walk) : ~Supported(fs.walk[i])
      fails == ~fs.is_dir \/ none
      error == IF ~fs.is_dir THEN "is not a directory"
               ELSE "No supported assets found"
  IN  /\ mpc = "start" =>
           LET r == discover(fs.is_dir, fs.walk)
           IN  /\ r.ok => r.val # << >>
               /\ fails => ~r.ok /\ r.err = error
               /\ ~fails => r.ok
      /\ PastDiscover => found # << >>
      /\ TuiMode(cli) /\ fails =>
           /\ found = << >>
           /\ sent \in { << >>, << [type |-> "Error", msg |-> error] >> }
           /\ wpc = "end" => sent # << >>
           /\ app.files = << >>
           /\ app.phase = IF rcvd = 0 THEN "Scanning" ELSE "Failed"
           /\ rcvd > 0 => app.error_msg = Some(error)

\* the directory holds a text file only: the dashboard shows the failure
C18_Witness ==
  /\ TuiMode(cli)
  /\ fs.is_dir
  /\ Len(fs.walk) = 1
  /\ wpc = "end"
  /\ sent = << [type |-> "Error", msg |-> "No supported assets found"] >>
  /\ app.phase = "Failed"
  /\ app.files = << >>

\* ------------------------------------------------------------------------
\* discover on its own: directories with a subdirectory and a hidden file
\* ------------------------------------------------------------------------

\* a root with the subdirectory a, the same file name in both, a hidden file
TreeUniverse ==
  { Entry(<< >>, << "a" >>, FALSE),
    Entry(<< "a" >>, << "a", "1", ".", "j", "p", "g" >>, TRUE),
    Entry(<< >>, << "a", "1", ".", "j", "p", "g" >>, TRUE),
    Entry(<< >>, << "a", "2", ".", "J", "P", "G" >>, TRUE),
    Entry(<< >>, << ".", "a", "1", ".", "j", "p", "g" >>, TRUE) }

\* WalkDir goes depth first: what lies in a directory follows the directory
\* at once; the order of the entries of one directory is the order in which
\* the file system lists them
TreeOrder(w) ==
  \A i \in 1..Len(w) :
    w[i].dir # << >> =>
      /\ i > 1
      /\ \/ w[i - 1] = Entry(<< >>, w[i].dir, FALSE)
         \/ w[i - 1].dir = w[i].dir

\* the walks of the trees with at most n entries
TreeWalks(n) ==
  UNION { { w \in [1..k -> TreeUniverse] :
              /\ \A i, j \in 1..k : i # j => w[i] # w[j]
              /\ TreeOrder(w) }
          : k \in 0..n }

\* the plain run is about to call discover on one of the trees
InitDiscover ==
  /\ cli = [no_tui |-> TRUE, manifest_only |-> FALSE, auto_orient |-> FALSE]
  /\ fs \in { [is_dir |-> TRUE, walk |-> w] : w \in TreeWalks(MaxFiles + 2) }
  /\ mpc = "discover"
  /\ wpc = "idle"
  /\ found = << >>
  /\ wi = 0
  /\ assets = << >>
  /\ errors = << >>
  /\ results = << >>
  /\ merr = ""
  /\ werr = ""
  /\ sent = << >>
  /\ rcvd = 0
  /\ app = NewApp
  /\ renderCalls = 0
  /\ exitStatus = "running"

SpecDiscover == InitDiscover /\ [][MainDiscover]_vars

\* the entries of a walk
EntriesOf(w) == { w[i] : i \in 1..Len(w) }

\* C19: the order discover returns is fixed by the set of files it finds: a
\* walk that yields the same entries in another order gives the same
\* sequence, also when two of the files have the same name in different
\* directories, so that no index depends on the order of the walk.
C19_OrderFromSetAlone ==
  mpc = "tempdir" =>
    \A w \in TreeWalks(Len(fs.walk)) :
      EntriesOf(w) = EntriesOf(fs.walk) => discover(TRUE, w) = Ok(found)

\* ------------------------------------------------------------------------
\* Thumbnail file names
\* ------------------------------------------------------------------------

\* largest of the consecutive indices the names are compared for
MaxIndex == 12

\* the indices the names are compared for: the first ones and those around
\* a change in the number of digits
SomeIndices == 0..MaxIndex \cup { 99, 100, 999, 1000, 9999, 10000, 10001 }

\* the thumbnail names the outcomes and records of the run carry, each with
\* the place it was found at
ThumbsOfResults ==
  { << i, results[i][1].val.thumbnail_path[1] >> :
      i \in { k \in 1..Len(results) :
                /\ results[k] # None
                /\ results[k][1].ok
                /\ results[k][1].val.thumbnail_path # None } }

ThumbsOfAssets ==
  { << n, assets[n].thumbnail_path[1] >> :
      n \in { k \in 1..Len(assets) : assets[k].thumbnail_path # None } }

\* C20: a thumbnail's file name is the index in at least four digits followed
\* by .jpg (0000.jpg for 0, 0012.jpg for 12), different indices give
\* different names, the task with index i writes the name of i, and no two
\* outcomes or records of a run carry the same name, in whatever order the
\* parallel tasks run.
C20_ThumbNamesDistinct ==
  /\ mpc = "start" =>
       /\ ThumbName(0) = << "0", "0", "0", "0", ".", "j", "p", "g" >>
       /\ ThumbName(12) = << "0", "0", "1", "2", ".", "j", "p", "g" >>
       /\ \A i, j \in SomeIndices : ThumbName(i) = ThumbName(j) => i = j
  /\ \A t \in ThumbsOfResults : t[2] = ThumbName(t[1] - 1)
  /\ \A t, u \in ThumbsOfResults : t[2] = u[2] => t[1] = u[1]
  /\ \A t, u \in ThumbsOfAssets : t[2] = u[2] => t[1] = u[1]

\* two parallel tasks have written 0000.jpg and 0001.jpg
C20_Witness ==
  /\ mpc = "process_all"
  /\ ThumbsOfResults = { << 1, << "0", "0", "0", "0", ".", "j", "p", "g" >> >>,
                         << 2, << "0", "0", "0", "1", ".", "j", "p", "g" >> >> }

\* ------------------------------------------------------------------------
\* The dashboard run under fair scheduling
\* ------------------------------------------------------------------------

\* the entries of the directories of the fair runs, in the order of the walk
LiveOrder ==
  << Entry(<< >>, << "a", "2", ".", "J", "P", "G" >>, TRUE),
     Entry(<< >>, << "a", "3", ".", "t", "x", "t" >>, TRUE),
     Entry(<< >>, << "a", "1", "0", ".", "j", "p", "g" >>, TRUE),
     Entry(<< >>, << "a", "1", ".", "m", "p", "4" >>, TRUE) >>

\* run() is entered in dashboard mode on something that is no directory, or
\* on a directory that holds the first entries of LiveOrder: none, one image,
\* an image and a text file, ... up to MaxFiles supported files
InitLive ==
  /\ cli = [no_tui |-> FALSE, manifest_only |-> FALSE, auto_orient |-> FALSE]
  /\ fs \in { [is_dir |-> FALSE, walk |-> << >>] }
            \cup { [is_dir |-> TRUE, walk |-> SubSeq(LiveOrder, 1, k)] :
                     k \in 0..(IF MaxFiles + 1 < Len(LiveOrder)
                               THEN MaxFiles + 1 ELSE Len(LiveOrder)) }
  /\ mpc = "start"
  /\ wpc = "idle"
  /\ found = << >>
  /\ wi = 0
  /\ assets = << >>
  /\ errors = << >>
  /\ results = << >>
  /\ merr = ""
  /\ werr = ""
  /\ sent = << >>
  /\ rcvd = 0
  /\ app = NewApp
  /\ renderCalls = 0
  /\ exitStatus = "running"

\* the steps of the dashboard run
NextLive ==
  \/ MainStart
  \/ PipelineDiscover
  \/ PipelineAssetFound
  \/ PipelineScanDone
  \/ PipelineTempdir
  \/ PipelineProcessing
  \/ PipelineProcessOne
  \/ PipelineRendering
  \/ PipelineRender
  \/ PipelineError
  \/ LoopInput
  \/ LoopIoError
  \/ LoopRecv
  \/ LoopDrained
  \/ TuiReturn
  \/ TuiExit

\* the pipeline thread takes a step: each step of pipeline() and of the
\* closure around it moves wpc or wi, and nothing else moves them once the
\* thread is spawned
ThreadStep ==
  /\ WorkerRuns
  /\ wpc \notin { "idle", "end" }
  /\ wpc' \in { "found", "tempdir", "processing", "process_one", "render",
                "error", "end" }
  /\ wi' \in 0..(MaxFiles + 1)

\* the operating system runs the spawned thread and every call in it returns
\* (discover, tempdir, process_one, pdf::render); main spawns the thread; the
\* event loop goes on from tick to tick: it polls, takes what the channel
\* holds and sees the channel empty
FairLive ==
  /\ WF_vars(MainStart)
  /\ WF_<< wpc, wi >>(ThreadStep)
  /\ WF_vars(LoopInput)
  /\ WF_vars(LoopRecv)
  /\ WF_vars(LoopDrained)

SpecLive == InitLive /\ [][NextLive]_vars /\ FairLive

\* event_loop has returned
DashboardLeft == mpc \in { "restore", "returned", "exit" }

\* the pipeline sends its last message, and from some point on the dashboard
\* has received every message sent and shows Complete or Failed
RunSettles ==
  /\ <>(Positions({"Done", "Error"}) # {})
  /\ <>[](rcvd = Len(sent) /\ app.phase \in TerminalPhases)

C22_KeysAndMessagesApart ==
  [][/\ mpc = "poll" =>
          /\ app' = [app EXCEPT !.scroll = app'.scroll]
          /\ app'.scroll \in { app.scroll - 1, app.scroll, app.scroll + 1 }
          /\ rcvd' = rcvd
     /\ rcvd' # rcvd => app'.scroll = app.scroll]_vars

\* Down was pressed between two entries' messages and the ones after them
C22_Witness ==
  /\ app.scroll = 1
  /\ Len(app.files) = 2
  /\ rcvd = Len(sent)
  /\ rcvd > 2

\* ------------------------------------------------------------------------
\* Counters and entries
\* ------------------------------------------------------------------------

\* the positions of the entries whose status is one of the given ones
EntriesIn(kinds) == { i \in 1..Len(app.files) : app.files[i].status[1] \in kinds }

\* the counters say what the entries show
CountersMatchEntries ==
  /\ app.processed_count = Cardinality(EntriesIn({"Done", "Failed"}))
  /\ app.failed_count = Cardinality(EntriesIn({"Failed"}))

\* C23: in every state of the dashboard run the processed counter is the
\* number of entries that are Done or Failed and the failed counter the number
\* of entries that are Failed, and the processed counter never decreases,
\* also when Done is received after a run with failed assets.
C23_CountersMatchEntries ==
  /\ []CountersMatchEntries
  /\ [][app'.processed_count >= app.processed_count]_vars

\* C24: in every state of the dashboard run in which the phase is Rendering
\* or Complete, every entry is Done or Failed, none Pending or Processing,
\* and there are as many entries as the recorded total and as discovered
\* assets.
C24_AllSettledWhenRendering ==
  app.phase \in { "Rendering", "Complete" } =>
    /\ EntriesIn({"Done", "Failed"}) = 1..Len(app.files)
    /\ Len(app.files) = app.total_found
    /\ Len(app.files) = Len(found)

\* the dashboard shows Rendering after one asset failed and one succeeded
C24_Witness ==
  /\ app.phase = "Rendering"
  /\ Cardinality(EntriesIn({"Failed"})) = 1
  /\ Cardinality(EntriesIn({"Done"})) = 1

\* C25: in every state of the dashboard run, between the messages of one
\* drain too, at most one entry is Processing; the entries before it are
\* Done or Failed and the entries after it are Pending.
C25_OneInProgress ==
  TuiMode(cli) =>
    LET busy == EntriesIn({"Processing"})
    IN  /\ Cardinality(busy) <= 1
        /\ \A i \in busy :
             /\ 1..(i - 1) \subseteq EntriesIn({"Done", "Failed"})
             /\ (i + 1)..Len(app.files) \subseteq EntriesIn({"Pending"})

\* the first entry is Done, the second is being processed
C25_Witness ==
  /\ Len(app.files) = 2
  /\ app.files[1].status = << "Done" >>
  /\ app.files[2].status = << "Processing" >>
  /\ mpc = "drain"

\* ------------------------------------------------------------------------
\* The life of an entry
\* ------------------------------------------------------------------------

\* the moves of an entry's status: none, Pending to Processing, Processing
\* to Done or Failed
StatusMove(old, new) ==
  \/ new = old
  \/ old[1] = "Pending" /\ new[1] = "Processing"
  \/ old[1] = "Processing" /\ new[1] \in { "Done", "Failed" }

\* C26: in every step of the dashboard run the entries are kept in place
\* with their file name and kind, new ones come at the end and are Pending,
\* and the status of an entry stays or moves from Pending to Processing or
\* from Processing to Done or Failed: a Done or Failed entry never changes
\* again and none goes from Pending to Done or Failed.
C26_EntriesOnlyMoveForward ==
  [][/\ Len(app'.files) >= Len(app.files)
     /\ \A i \in 1..Len(app.files) :
          /\ app'.files[i].filename = app.files[i].filename
          /\ app'.files[i].kind = app.files[i].kind
          /\ StatusMove(app.files[i].status, app'.files[i].status)
     /\ \A i \in (Len(app.files) + 1)..Len(app'.files) :
          app'.files[i].status = << "Pending" >>]_vars

\* both entries have gone their way, one to Failed and one to Done
C26_Witness ==
  /\ Len(app.files) = 2
  /\ app.files[1].status[1] = "Failed"
  /\ app.files[2].status = << "Done" >>
  /\ app.phase = "Processing"

====
